---- MODULE Spec2Model ----
(***************************************************************************)
(* StockSense-Analyzer: the question-answering paths of the repository.    *)
(*                                                                         *)
(*   - the "AI Analysis" page of src/app.py: the Analyze-button handler,   *)
(*     an if/elif chain of keyword rules evaluated over the data frame df; *)
(*   - get_stock_statistics of src/data_processor.py;                      *)
(*   - StockAnalyzer.analyze of src/analyzer.py, which hands the query to  *)
(*     the LangChain CSV agent.                                            *)
(*                                                                         *)
(* Decimal columns (Price, P/E Ratio, Performance (%)) are integers in     *)
(* hundredths: 15025 is 150.25.  Texts are TLA+ strings, so the substring  *)
(* tests, str.lower() and the f-strings of the source are computed on the  *)
(* characters.  A Python exception is a value [exc |-> type, msg |-> text].*)
(***************************************************************************)
EXTENDS Integers, Sequences, FiniteSets, TLC

(***************************************************************************)
(* Bounds of the model.                                                    *)
(***************************************************************************)
MaxRecords == 2      \* rows of the data frame
MaxWords == 2        \* words of a generated query

(***************************************************************************)
(* Python str operations.                                                  *)
(***************************************************************************)
UpperChars == "ABCDEFGHIJKLMNOPQRSTUVWXYZ"
LowerChars == "abcdefghijklmnopqrstuvwxyz"

\* the lower-case letter of each upper-case letter
LowerOf ==
    [c \in {SubSeq(UpperChars, i, i) : i \in 1..26} |->
        LET i == CHOOSE k \in 1..26 : SubSeq(UpperChars, k, k) = c
        IN  SubSeq(LowerChars, i, i)]

\* one character of str.lower()
LowerChar(c) == IF c \in DOMAIN LowerOf THEN LowerOf[c] ELSE c

RECURSIVE Lower(_)
\* str.lower()
Lower(s) ==
    IF Len(s) = 0 THEN ""
    ELSE LowerChar(SubSeq(s, 1, 1)) \o Lower(SubSeq(s, 2, Len(s)))

\* the `in` operator on strings: p in s
Contains(p, s) ==
    \E i \in 1..(Len(s) - Len(p) + 1) : SubSeq(s, i, i + Len(p) - 1) = p

\* two digits of a fraction
Pad2(n) == IF n < 10 THEN "0" \o ToString(n) ELSE ToString(n)

\* f"{v:.2f}" of a value held in hundredths
Fmt2(v) ==
    LET a == IF v < 0 THEN -v ELSE v
    IN  (IF v < 0 THEN "-" ELSE "") \o ToString(a \div 100) \o "." \o Pad2(a % 100)

\* num/den rounded to the nearest integer, ties to even (the rounding of
\* the :.2f conversion on the quotient)
RoundDiv(num, den) ==
    LET q == num \div den
        r == num % den
    IN  IF 2 * r > den THEN q + 1
        ELSE IF 2 * r < den THEN q
        ELSE IF q % 2 = 0 THEN q ELSE q + 1

(***************************************************************************)
(* pandas values.  Series.mean() of an empty column is NaN.                *)
(***************************************************************************)
NaN == [nan |-> TRUE]

RECURSIVE Sum(_)
Sum(xs) == IF Len(xs) = 0 THEN 0 ELSE Head(xs) + Sum(Tail(xs))

\* Series.mean(): the quotient sum/len, NaN for no rows
Mean(xs) == IF Len(xs) = 0 THEN NaN ELSE [nan |-> FALSE, num |-> Sum(xs), den |-> Len(xs)]

\* f"{m:.2f}" of a mean
Fmt2Mean(m) == IF m.nan THEN "nan" ELSE Fmt2(RoundDiv(m.num, m.den))

\* Python's None
None == "<None>"

\* no analyzer object yet, no result yet
Nothing == [none |-> TRUE]

\* the two ways a call ends
Raise(t, m) == [ok |-> FALSE, exc |-> t, msg |-> m]
Return(v) == [ok |-> TRUE, val |-> v]

(***************************************************************************)
(* The data frame.  A row carries the six columns of the CSV file; df is   *)
(* the sequence of rows in file order, its index the positions 1..len.     *)
(***************************************************************************)
Row(sym, nm, p, pe, perf, sec) ==
    [symbol |-> sym, name |-> nm, price |-> p, pe |-> pe, perf |-> perf, sector |-> sec]

\* Rows of a stock file.  AAPL and TSLA carry the values of the built-in
\* sample of get_cached_data; MSFT is priced as TSLA, so that frames whose
\* maximum price is shared by two rows exist, and has lost value.
AAPL == Row("AAPL", "Apple Inc.", 15025, 2850, 1250, "Technology")
TSLA == Row("TSLA", "Tesla Inc.", 65075, 12050, 500, "Automotive")
MSFT == Row("MSFT", "Microsoft Corp.", 65075, 3560, -820, "Technology")

Rows == {AAPL, TSLA, MSFT}

\* a second, later quote of AAPL
AAPL_AGAIN == Row("AAPL", "Apple Inc.", 16000, 2900, 1300, "Technology")

RECURSIVE SeqsUpTo(_, _)
\* the sequences over S of length at most n
SeqsUpTo(S, n) ==
    IF n = 0 THEN {<<>>}
    ELSE LET shorter == SeqsUpTo(S, n - 1)
         IN  shorter \cup {Append(xs, x) : xs \in {ys \in shorter : Len(ys) = n - 1}, x \in S}

\* the built-in sample of get_cached_data, app.py lines 349-358
SAMPLE_DATA ==
    << AAPL,
       Row("MSFT", "Microsoft Corp.", 29050, 3560, 820, "Technology"),
       Row("GOOGL", "Alphabet Inc.", 280075, 3020, 1570, "Technology"),
       Row("AMZN", "Amazon.com Inc.", 325050, 6580, 680, "Consumer Services"),
       TSLA >>

\* every data frame of at most MaxRecords rows, the built-in sample, and a
\* frame that quotes AAPL twice
Datasets == SeqsUpTo(Rows, MaxRecords) \cup {SAMPLE_DATA, <<AAPL, AAPL_AGAIN>>}

Column(d, c) == [i \in 1..Len(d) |-> d[i][c]]

Symbols(d) == {d[i].symbol : i \in 1..Len(d)}

\* no two rows of d carry the same symbol
UniqueSymbols(d) == \A i, j \in 1..Len(d) : d[i].symbol = d[j].symbol => i = j

(***************************************************************************)
(* pandas operations used by the source.                                   *)
(***************************************************************************)
RECURSIVE ArgMaxScan_last(_, _, _)
\* the scan with >= for >: the last maximum wins
ArgMaxScan_last(xs, i, best) ==
    IF i > Len(xs) THEN best
    ELSE ArgMaxScan_last(xs, i + 1, IF xs[i] >= xs[best] THEN i ELSE best)

RECURSIVE ArgMaxScan(_, _, _)
\* position of the first maximum of xs[i..], best being the best so far
ArgMaxScan(xs, i, best) ==
    IF i > Len(xs) THEN best
    ELSE ArgMaxScan(xs, i + 1, IF xs[i] > xs[best] THEN i ELSE best)

\* Series.idxmax(): label of the first occurrence of the maximum;
\* ValueError on an empty Series
idxmax(xs) ==
    IF Len(xs) = 0
    THEN Raise("ValueError", "attempt to get argmax of an empty sequence")
    ELSE Return(ArgMaxScan(xs, 2, 1))

\* df[df['Stock Symbol'] == sym][c].values[0]: column c of the first row
\* whose symbol is sym; IndexError when no row matches
values0(d, sym, c) ==
    LET hit == SelectSeq(d, LAMBDA r : r.symbol = sym)
    IN  IF Len(hit) = 0
        THEN Raise("IndexError", "index 0 is out of bounds for axis 0 with size 0")
        ELSE Return(hit[1][c])

RECURSIVE Distinct(_)
\* the labels of xs, each once, in order of first appearance
Distinct(xs) ==
    IF Len(xs) = 0 THEN <<>>
    ELSE LET front == Distinct(SubSeq(xs, 1, Len(xs) - 1))
             x == xs[Len(xs)]
         IN  IF \E i \in 1..Len(front) : front[i] = x THEN front ELSE Append(front, x)

CountOf(xs, x) == Cardinality({i \in 1..Len(xs) : xs[i] = x})

\* every observed label counted once, however many rows carry it
value_counts_once(xs) == [x \in {xs[i] : i \in 1..Len(xs)} |-> 1]

\* Series.value_counts().to_dict(): label -> number of rows carrying it
value_counts(xs) == [x \in {xs[i] : i \in 1..Len(xs)} |-> CountOf(xs, x)]

\* the smallest count in place of the largest
value_counts_min(xs) ==
    IF Len(xs) = 0 THEN NaN
    ELSE CHOOSE n \in {CountOf(xs, x) : x \in {xs[i] : i \in 1..Len(xs)}} :
             \A x \in {xs[i] : i \in 1..Len(xs)} : n <= CountOf(xs, x)

\* Series.value_counts().max(): the largest count, NaN for no rows
value_counts_max(xs) ==
    IF Len(xs) = 0 THEN NaN
    ELSE CHOOSE n \in {CountOf(xs, x) : x \in {xs[i] : i \in 1..Len(xs)}} :
             \A x \in {xs[i] : i \in 1..Len(xs)} : CountOf(xs, x) <= n

\* Series.value_counts().idxmax(): value_counts sorts the counts in
\* descending order with sort_values' default quicksort, which keeps equal
\* counts in first-seen order only when the sort of the build is stable; the
\* label returned is the head of the sorted counts
value_counts_idxmax(xs, stable) ==
    IF Len(xs) = 0
    THEN Raise("ValueError", "attempt to get argmax of an empty sequence")
    ELSE LET labels == Distinct(xs)
             top == value_counts_max(xs)
             tied == SelectSeq(labels, LAMBDA x : CountOf(xs, x) = top)
         IN  Return(IF stable THEN tied[1] ELSE tied[Len(tied)])

(***************************************************************************)
(* The AI Analysis page of src/app.py: what the Analyze button does with   *)
(* the text of the input box.  Each rule is the body of one branch of the  *)
(* if/elif chain; a raised exception leaves the chain for the except       *)
(* clause of the handler.                                                  *)
(***************************************************************************)
DEMO_FALLBACK ==
    "I don't have enough information to answer that specific question in demo mode. With the Groq API key configured, this would provide a detailed analysis."

\* lines 595-596
price_rule(d) ==
    LET aapl_price == values0(d, "AAPL", "price")
    IN  IF aapl_price.ok
        THEN Return("The stock price of AAPL is $" \o Fmt2(aapl_price.val))
        ELSE aapl_price

\* lines 598-599
performance_rule(d) ==
    LET tsla_perf == values0(d, "TSLA", "perf")
    IN  IF tsla_perf.ok
        THEN Return("The performance of TSLA is " \o Fmt2(tsla_perf.val) \o "%")
        ELSE tsla_perf

\* the PE rule with the ratio formatted to one decimal place
pe_rule_one_decimal(d) ==
    LET msft_pe == values0(d, "MSFT", "pe")
        tenths  == RoundDiv(msft_pe.val, 10)
    IN  IF msft_pe.ok
        THEN Return("The P/E Ratio of MSFT is " \o ToString(tenths \div 10)
                        \o "." \o ToString(tenths % 10))
        ELSE msft_pe

\* lines 601-602
pe_rule(d) ==
    LET msft_pe == values0(d, "MSFT", "pe")
    IN  IF msft_pe.ok
        THEN Return("The P/E Ratio of MSFT is " \o Fmt2(msft_pe.val))
        ELSE msft_pe

\* lines 604-605
highest_price_rule(d) ==
    LET at == idxmax(Column(d, "price"))
    IN  IF at.ok
        THEN LET highest == d[at.val]
             IN  Return("The stock with the highest price is " \o highest.name
                        \o " (" \o highest.symbol \o ") with a price of $"
                        \o Fmt2(highest.price))
        ELSE at

\* lines 607-608
average_price_rule(d) ==
    LET avg_price == Mean(Column(d, "price"))
    IN  Return("The average stock price is $" \o Fmt2Mean(avg_price))

\* lines 611-613
sector_rule(d, stable) ==
    LET top_sector == value_counts_idxmax(Column(d, "sector"), stable)
        count == value_counts_max(Column(d, "sector"))
    IN  IF top_sector.ok
        THEN Return("The sector with the most stocks is " \o top_sector.val
                    \o " with " \o ToString(count) \o " stocks")
        ELSE top_sector

\* the chain without its else branch: response is never bound
fallback_rule_unbound == Raise("NameError", "name 'response' is not defined")

\* line 615
fallback_rule == Return(DEMO_FALLBACK)

\* the conditions of the if/elif chain, lines 594, 597, 600, 603, 606, 610,
\* lq being query.lower()
Cond(i, q, lq) ==
    CASE i = 1 -> Contains("AAPL", q) /\ Contains("price", lq)
      [] i = 2 -> Contains("TSLA", q) /\ Contains("performance", lq)
      [] i = 3 -> Contains("MSFT", q) /\ Contains("PE", q)
      [] i = 4 -> Contains("highest price", lq)
      [] i = 5 -> Contains("average", lq) /\ Contains("price", lq)
      [] i = 6 -> Contains("sector", lq) /\ Contains("most", lq)
      [] OTHER -> TRUE

RuleCond(i, q) == Cond(i, q, Lower(q))

\* the chain with the highest-price test moved to the top
Branch_highest_first(q) ==
    LET lq == Lower(q)
    IN  IF Cond(4, q, lq) THEN 4
        ELSE IF Cond(1, q, lq) THEN 1
        ELSE IF Cond(2, q, lq) THEN 2
        ELSE IF Cond(3, q, lq) THEN 3
        ELSE IF Cond(5, q, lq) THEN 5
        ELSE IF Cond(6, q, lq) THEN 6
        ELSE 7

\* the branch of the chain that runs: the first whose condition holds, 7
\* being the else branch
Branch(q) ==
    LET lq == Lower(q)
    IN  IF Cond(1, q, lq) THEN 1
        ELSE IF Cond(2, q, lq) THEN 2
        ELSE IF Cond(3, q, lq) THEN 3
        ELSE IF Cond(4, q, lq) THEN 4
        ELSE IF Cond(5, q, lq) THEN 5
        ELSE IF Cond(6, q, lq) THEN 6
        ELSE 7

\* the body of branch i
RuleBody(i, d, stable) ==
    CASE i = 1 -> price_rule(d)
      [] i = 2 -> performance_rule(d)
      [] i = 3 -> pe_rule(d)
      [] i = 4 -> highest_price_rule(d)
      [] i = 5 -> average_price_rule(d)
      [] i = 6 -> sector_rule(d, stable)
      [] OTHER -> fallback_rule

\* the symbol whose row branch i looks up, "" when it looks up none
LookupOf(i) ==
    CASE i = 1 -> "AAPL"
      [] i = 2 -> "TSLA"
      [] i = 3 -> "MSFT"
      [] OTHER -> ""

\* lines 589-639: what the page shows after a click on Analyze.
\*   shown   "card" (st.markdown of query and response), "error" (st.error)
\*           or "warning" (st.warning for an empty input)
\*   text    the response, or the message of st.error / st.warning
\*   echo    the query rendered in the card
\*   branch  the branch of the chain that ran, 0 when none did
\*   lookup  the symbol whose row was looked up
\*   aggregated  whether idxmax()/mean() of the Price column was evaluated
\*   invoked  calls of the reasoning agent made by the handler
analyze_button(q, d, stable) ==
    IF q = ""
    THEN [shown |-> "warning", text |-> "Please enter a query to analyze.",
          echo |-> "", branch |-> 0, lookup |-> "", aggregated |-> FALSE, invoked |-> 0]
    ELSE LET b == Branch(q)
             r == RuleBody(b, d, stable)
         IN  [shown |-> IF r.ok THEN "card" ELSE "error",
              text |-> IF r.ok THEN r.val ELSE "Error analyzing data: " \o r.msg,
              echo |-> IF r.ok THEN q ELSE "",
              branch |-> b,
              lookup |-> LookupOf(b),
              aggregated |-> b \in {4, 5},
              invoked |-> 0]

(***************************************************************************)
(* get_stock_statistics of src/data_processor.py.  The dict display is     *)
(* evaluated entry by entry, so the first entry that raises ends the call. *)
(***************************************************************************)
\* the statistics with a guard that answers zeros for a frame of no rows
get_stock_statistics_zeros(d) ==
    IF Len(d) = 0
    THEN Return([total_stocks |-> 0, average_price |-> NaN, highest_price |-> None,
                 highest_pe |-> None, sectors |-> value_counts(<<>>),
                 avg_performance |-> NaN])
    ELSE Return([total_stocks |-> Len(d),
                 average_price |-> Mean(Column(d, "price")),
                 highest_price |-> d[idxmax(Column(d, "price")).val].symbol,
                 highest_pe |-> d[idxmax(Column(d, "pe")).val].symbol,
                 sectors |-> value_counts(Column(d, "sector")),
                 avg_performance |-> Mean(Column(d, "perf"))])

get_stock_statistics(d) ==
    LET price_at == idxmax(Column(d, "price"))
        pe_at == idxmax(Column(d, "pe"))
    IN  IF ~price_at.ok THEN price_at
        ELSE IF ~pe_at.ok THEN pe_at
        ELSE Return([total_stocks |-> Len(d),
                     average_price |-> Mean(Column(d, "price")),
                     highest_price |-> d[price_at.val].symbol,
                     highest_pe |-> d[pe_at.val].symbol,
                     sectors |-> value_counts(Column(d, "sector")),
                     avg_performance |-> Mean(Column(d, "perf"))])

(***************************************************************************)
(* StockAnalyzer of src/analyzer.py.  The agent is opaque: reply is what   *)
(* agent.invoke(query) did, Return(output text) or Raise(type, message).   *)
(***************************************************************************)
\* StockAnalyzer.analyze
analyze(q, reply) ==
    IF reply.ok
    THEN [query |-> q, response |-> reply.val]
    ELSE [query |-> q, response |-> "Error: " \o reply.msg]

(***************************************************************************)
(* Inputs.                                                                 *)
(***************************************************************************)
\* config.STANDARD_QUERIES
STANDARD_QUERIES ==
    << "What is the stock price of AAPL?",
       "What is the performance of TSLA?",
       "What is the PE ratio of MSFT?",
       "Which stock has the highest price?",
       "What is the average stock price?",
       "Which sector has the most stocks?",
       "What is the market cap of AMZN?",
       "Which technology stock has the lowest P/E ratio?" >>

Words ==
    {"AAPL", "TSLA", "MSFT", "price", "performance", "PE", "highest", "average"}

RECURSIVE Phrases(_)
\* the texts of exactly n words separated by single spaces
Phrases(n) ==
    IF n = 1 THEN Words ELSE {p \o " " \o w : p \in Phrases(n - 1), w \in Words}

\* further questions: of several rules at once, of one keyword of a rule
\* without the other, of other letter cases
OtherQueries ==
    { "What is the highest price of AAPL?",
      "Which sector has the most stocks above the average price?",
      "Which sector has the highest price?",
      "sector", "most",
      "what is the PRICE of aapl?",
      "What is the P/E ratio of MSFT?",
      "MSFT PERFORMANCE",
      "What is the pe ratio of MSFT?" }

PriceQuestion(sym) == "What is the price of " \o sym \o "?"

Queries ==
    {""} \cup {STANDARD_QUERIES[i] : i \in 1..Len(STANDARD_QUERIES)}
         \cup {PriceQuestion(r.symbol) : r \in Rows}
         \cup OtherQueries
         \cup UNION {Phrases(n) : n \in 1..MaxWords}

AgentReplies ==
    { Return("Amazon's market cap is not in the data."),
      Return("Error: none"),
      Raise("TimeoutError", "Request timed out."),
      Raise("KeyError", "'output'") }

(***************************************************************************)
(* State.                                                                  *)
(***************************************************************************)
VARIABLES
    program,        \* the entry point that runs: "app" (app.py) or "main" (main.py)
    df,             \* the data frame the operations work on
    GROQ_API_KEY,   \* config.GROQ_API_KEY, None when no key is configured
    stableSort,     \* whether the build's sort keeps equal counts in order
    analyzer,       \* the StockAnalyzer of main.py, Nothing before it is created
    pc,             \* "idle", or the operation that has just completed
    query,          \* the text the operation was given
    result,         \* what the operation produced
    last,           \* history: query and result of the click before, when kept
    files,          \* the stock files on disk, when the run starts by loading
    cli             \* a run of main.py: its arguments, its steps so far, its return

vars == <<program, df, GROQ_API_KEY, stableSort, analyzer, pc, query, result, last, files, cli>>

\* The data frame of a run.  main.py holds what load_stock_data returned,
\* rows of unique symbols, none for a file of a header alone.  app.py holds
\* what get_cached_data returned: the loaded frame when its statistics could
\* be computed (which needs a row), the built-in sample otherwise.
InitialFrames(prog) ==
    {d \in Datasets : UniqueSymbols(d) /\ (prog = "app" => Len(d) >= 1)}

Init ==
    /\ program \in {"app", "main"}
    /\ df \in InitialFrames(program)
    /\ GROQ_API_KEY \in {None, "gsk_test"}
    /\ stableSort \in BOOLEAN
    /\ analyzer = Nothing
    /\ pc = "idle"
    /\ query = ""
    /\ result = Nothing
    /\ last = Nothing
    /\ files = Nothing
    /\ cli = Nothing

\* a handler that answers in full only the first click of a session
Click_first_only(q) ==
    /\ program = "app"
    /\ pc = "idle"
    /\ pc' = "clicked"
    /\ query' = q
    /\ result' = IF last = Nothing \/ q = ""
                 THEN analyze_button(q, df, stableSort)
                 ELSE [analyze_button(q, df, stableSort) EXCEPT !.text = DEMO_FALLBACK]
    /\ UNCHANGED <<program, df, GROQ_API_KEY, stableSort, analyzer, last, files, cli>>

\* app.py lines 589-639: a click on Analyze with q in the input box
Click(q) ==
    /\ program = "app"
    /\ pc = "idle"
    /\ pc' = "clicked"
    /\ query' = q
    /\ result' = analyze_button(q, df, stableSort)
    /\ UNCHANGED <<program, df, GROQ_API_KEY, stableSort, analyzer, last, files, cli>>

\* a call of get_stock_statistics(df): by get_cached_data of app.py on the
\* frame it returns, by the 'stats' command of main.py's interactive mode
Statistics ==
    /\ pc = "idle"
    /\ program = "main" => analyzer # Nothing
    /\ pc' = "stats"
    /\ query' = ""
    /\ result' = get_stock_statistics(df)
    /\ UNCHANGED <<program, df, GROQ_API_KEY, stableSort, analyzer, last, files, cli>>

\* main.py lines 63-77: with an API key, main creates the analyzer
CreateAnalyzer ==
    /\ program = "main"
    /\ pc = "idle"
    /\ analyzer = Nothing
    /\ GROQ_API_KEY # None
    /\ analyzer' = [api_key |-> GROQ_API_KEY]
    /\ UNCHANGED <<program, df, GROQ_API_KEY, stableSort, pc, query, result, last, files, cli>>

\* analyzer.analyze(q), the agent answering with reply
Analyze(q, reply) ==
    /\ program = "main"
    /\ pc = "idle"
    /\ analyzer # Nothing
    /\ pc' = "analyzed"
    /\ query' = q
    /\ result' = [answer |-> analyze(q, reply), reply |-> reply, invoked |-> 1]
    /\ UNCHANGED <<program, df, GROQ_API_KEY, stableSort, analyzer, last, files, cli>>

\* the operation is over: the page is rerun, or the caller goes on
Rerun ==
    /\ pc # "idle"
    /\ pc' = "idle"
    /\ query' = ""
    /\ result' = Nothing
    /\ UNCHANGED <<program, df, GROQ_API_KEY, stableSort, analyzer, last, files, cli>>

Next ==
    \/ \E q \in Queries : Click(q)
    \/ Statistics
    \/ CreateAnalyzer
    \/ \E q \in {STANDARD_QUERIES[i] : i \in 1..Len(STANDARD_QUERIES)}, reply \in AgentReplies :
           Analyze(q, reply)
    \/ Rerun

Spec == Init /\ [][Next]_vars

(***************************************************************************)
(* The handler as a function of its data frame: the page's rules applied   *)
(* to any frame of the bounded set, the empty one and those of repeated    *)
(* rows included.                                                          *)
(***************************************************************************)
InitResolve ==
    /\ program = "app"
    /\ df \in Datasets
    /\ GROQ_API_KEY \in {None, "gsk_test"}
    /\ stableSort \in BOOLEAN
    /\ analyzer = Nothing
    /\ pc = "idle"
    /\ query = ""
    /\ result = Nothing
    /\ last = Nothing
    /\ files = Nothing
    /\ cli = Nothing

NextResolve ==
    \/ \E q \in Queries : Click(q)
    \/ Rerun

SpecResolve == InitResolve /\ [][NextResolve]_vars

(***************************************************************************)
(* Two clicks in a row.  As SpecResolve, with the query and the result of  *)
(* a click remembered over the rerun of the script, so that the next click *)
(* can be compared with it.                                                *)
(***************************************************************************)
RepeatQueries == {STANDARD_QUERIES[i] : i \in 1..Len(STANDARD_QUERIES)} \cup OtherQueries

\* the script is rerun; the click that is over is remembered
RerunKeep ==
    /\ pc = "clicked"
    /\ pc' = "idle"
    /\ query' = ""
    /\ result' = Nothing
    /\ last' = [query |-> query, result |-> result]
    /\ UNCHANGED <<program, df, GROQ_API_KEY, stableSort, analyzer, files, cli>>

NextTwice ==
    \/ \E q \in RepeatQueries : Click(q)
    \/ RerunKeep

SpecTwice == InitResolve /\ [][NextTwice]_vars

(***************************************************************************)
(* load_stock_data of src/data_processor.py.  The file system is the value *)
(* of files: DATA_FILE of src/config.py, what each candidate path holds,   *)
(* and the rows of the stock file.                                         *)
(***************************************************************************)
\* line 25 of src/config.py: CSV_FILE_PATH of the environment, or the default
DataFiles == {"data/stocks.csv", "custom.csv"}

\* lines 19-24
possible_paths(DATA_FILE) == <<DATA_FILE, "data/stocks.csv", "stocks.csv", "sample.csv">>

\* every path that can be a candidate
Paths == UNION {{possible_paths(f)[i] : i \in 1..Len(possible_paths(f))} : f \in DataFiles}

\* what a path holds: no file; a file pd.read_csv fails on; a CSV file
\* without a 'Stock Symbol' column; the stock file; another stock file
FileKinds == {"missing", "unreadable", "nosymbol", "stock", "other"}

\* the rows a stock file is written from: a symbol quoted twice is possible
FileRows == {AAPL, AAPL_AGAIN, TSLA}

FileSystems ==
    [DATA_FILE : DataFiles, kind : [Paths -> FileKinds], rows : SeqsUpTo(FileRows, MaxRecords)]

\* os.path.exists(path)
exists(fs, path) == fs.kind[path] # "missing"

\* pd.read_csv(path) of an existing path: the frame with its columns, or
\* the exception of the parser
read_csv(fs, path) ==
    CASE fs.kind[path] = "unreadable" -> Raise("EmptyDataError", "No columns to parse from file")
      [] fs.kind[path] = "nosymbol"   -> Return([symbol_column |-> FALSE, rows |-> <<>>])
      [] fs.kind[path] = "stock"      -> Return([symbol_column |-> TRUE, rows |-> fs.rows])
      [] fs.kind[path] = "other"      -> Return([symbol_column |-> TRUE, rows |-> <<MSFT>>])

RECURSIVE drop_duplicates_last(_)
\* of the rows of one symbol the last is kept
drop_duplicates_last(rows) ==
    IF Len(rows) = 0 THEN <<>>
    ELSE IF \E j \in 2..Len(rows) : rows[j].symbol = rows[1].symbol
         THEN drop_duplicates_last(Tail(rows))
         ELSE <<rows[1]>> \o drop_duplicates_last(Tail(rows))

RECURSIVE drop_duplicates(_)
\* line 44: df.drop_duplicates(subset=['Stock Symbol']), keep='first'
drop_duplicates(rows) ==
    IF Len(rows) = 0 THEN <<>>
    ELSE LET front == drop_duplicates(SubSeq(rows, 1, Len(rows) - 1))
             r == rows[Len(rows)]
         IN  IF \E j \in 1..Len(front) : front[j].symbol = r.symbol
             THEN front ELSE Append(front, r)

RECURSIVE JoinWith(_, _)
\* sep.join(xs)
JoinWith(xs, sep) ==
    IF Len(xs) = 0 THEN ""
    ELSE IF Len(xs) = 1 THEN xs[1]
    ELSE xs[1] \o sep \o JoinWith(Tail(xs), sep)

\* str(possible_paths): the repr of a list of strings
ListRepr(xs) == "[" \o JoinWith([i \in 1..Len(xs) |-> "'" \o xs[i] \o "'"], ", ") \o "]"

RECURSIVE load_loop_no_try(_, _, _, _)
\* the loop without its try: a failing read ends the call
load_loop_no_try(fs, paths, i, errors) ==
    IF i > Len(paths) THEN [df |-> Nothing, errors |-> errors, raised |-> Nothing]
    ELSE IF ~exists(fs, paths[i]) THEN load_loop_no_try(fs, paths, i + 1, errors)
    ELSE IF read_csv(fs, paths[i]).ok
         THEN [df |-> read_csv(fs, paths[i]).val, errors |-> errors, raised |-> Nothing]
         ELSE [df |-> Nothing, errors |-> errors, raised |-> read_csv(fs, paths[i])]

RECURSIVE load_loop(_, _, _, _)
\* lines 29-36: the first path that exists and reads gives df and ends the
\* loop; a path whose read fails adds to errors, and the loop goes on
load_loop(fs, paths, i, errors) ==
    IF i > Len(paths) THEN [df |-> Nothing, errors |-> errors, raised |-> Nothing]
    ELSE IF ~exists(fs, paths[i]) THEN load_loop(fs, paths, i + 1, errors)
    ELSE IF read_csv(fs, paths[i]).ok
         THEN [df |-> read_csv(fs, paths[i]).val, errors |-> errors, raised |-> Nothing]
         ELSE load_loop(fs, paths, i + 1,
                        Append(errors, "Error loading " \o paths[i] \o ": "
                                           \o read_csv(fs, paths[i]).msg))

\* lines 10-46
load_stock_data(fs) ==
    LET paths == possible_paths(fs.DATA_FILE)
        loop == load_loop(fs, paths, 1, <<>>)
    IN  IF loop.raised # Nothing THEN loop.raised
        ELSE IF loop.df = Nothing
        THEN Raise("FileNotFoundError",
                   "Could not find or load stock data file. Tried: " \o ListRepr(paths)
                       \o ". Errors: " \o JoinWith(loop.errors, "\n"))
        ELSE IF ~loop.df.symbol_column
        THEN Raise("KeyError", "Index(['Stock Symbol'], dtype='object')")
        ELSE Return(drop_duplicates(loop.df.rows))

InitLoad ==
    /\ program \in {"app", "main"}
    /\ df = <<>>
    /\ GROQ_API_KEY = "gsk_test"
    /\ stableSort = TRUE
    /\ analyzer = Nothing
    /\ pc = "start"
    /\ query = ""
    /\ result = Nothing
    /\ last = Nothing
    /\ files \in FileSystems
    /\ cli = Nothing

\* main.py line 70, app.py line 344: the call of load_stock_data
Load ==
    /\ pc = "start"
    /\ pc' = "loaded"
    /\ result' = load_stock_data(files)
    /\ df' = IF load_stock_data(files).ok THEN load_stock_data(files).val ELSE df
    /\ UNCHANGED <<program, GROQ_API_KEY, stableSort, analyzer, query, last, files, cli>>

\* get_cached_data without its except clause
get_cached_data_no_except(fs) ==
    LET loaded == load_stock_data(fs)
        stats == IF loaded.ok THEN get_stock_statistics(loaded.val) ELSE loaded
    IN  IF stats.ok THEN Return([df |-> loaded.val, stats |-> stats.val]) ELSE stats

\* src/app.py lines 341-359: the loaded frame and its statistics, or, after
\* an exception of either call, the built-in sample and its statistics
get_cached_data(fs) ==
    LET loaded == load_stock_data(fs)
        stats == IF loaded.ok THEN get_stock_statistics(loaded.val) ELSE loaded
        sample == get_stock_statistics(SAMPLE_DATA)
    IN  IF stats.ok THEN Return([df |-> loaded.val, stats |-> stats.val])
        ELSE IF sample.ok THEN Return([df |-> SAMPLE_DATA, stats |-> sample.val])
        ELSE sample

\* app.py line 363: df, stats = get_cached_data()
GetCachedData ==
    /\ program = "app"
    /\ pc = "start"
    /\ pc' = "cached"
    /\ result' = get_cached_data(files)
    /\ df' = IF get_cached_data(files).ok THEN get_cached_data(files).val.df ELSE df
    /\ UNCHANGED <<program, GROQ_API_KEY, stableSort, analyzer, query, last, files, cli>>

NextLoad ==
    \/ Load
    \/ GetCachedData

SpecLoad == InitLoad /\ [][NextLoad]_vars

(***************************************************************************)
(* A run of main.py, and a direct construction of StockAnalyzer.  cli      *)
(* holds the command line, the parsed arguments, the behaviour of the      *)
(* reasoning agent in this run, the calls made so far (trace), the results *)
(* of the batch, what was saved, and what main returned.                   *)
(***************************************************************************)
\* bounds of a run
MaxQueries == 2
MaxInputs == 2

\* src/config.py line 29, in hundredths
MODEL_TEMPERATURE == 50

\* a temperature value; no temperature is Nothing
Temp(t) == [value |-> t]

\* one call made by the run
Event(op, arg) == [op |-> op, arg |-> arg]

\* Python's truth value of an API key and of a temperature
TruthyKey(k) == k # None /\ k # ""
TruthyTemperature(t) == t # Nothing /\ t.value # 0

\* what ChatGroq and create_csv_agent do in a construction: both succeed,
\* or one of them raises
ExternalOutcomes == {"ok", "llm_fails", "agent_fails"}

\* StockAnalyzer.__init__ with the test for the key after the client and
\* the agent are created
StockAnalyzer_init_check_last(data_file, api_key, temperature, cfg_key, ext) ==
    LET key == IF TruthyKey(api_key) THEN api_key ELSE cfg_key
        temp == IF TruthyTemperature(temperature) THEN temperature ELSE Temp(MODEL_TEMPERATURE)
        llm == Event("ChatGroq", key)
        agent == Event("create_csv_agent", data_file)
    IN  IF ext = "llm_fails"
        THEN [outcome |-> Raise("GroqError", "client could not be created"), events |-> <<llm>>]
        ELSE IF ext = "agent_fails"
        THEN [outcome |-> Raise("FileNotFoundError", data_file), events |-> <<llm, agent>>]
        ELSE IF ~TruthyKey(key)
        THEN [outcome |-> Raise("ValueError", "Groq API key is required. Set it in .env file or pass directly."),
              events |-> <<llm, agent>>]
        ELSE [outcome |-> Return([data_file |-> data_file, api_key |-> key, temperature |-> temp,
                                  llm |-> [api_key |-> key, temperature |-> temp]]),
              events |-> <<llm, agent>>]

\* src/analyzer.py lines 19-48.  cfg_key is config.GROQ_API_KEY; ext is what
\* the two external constructors do.
StockAnalyzer_init(data_file, api_key, temperature, cfg_key, ext) ==
    LET key == IF TruthyKey(api_key) THEN api_key ELSE cfg_key
        temp == IF TruthyTemperature(temperature) THEN temperature ELSE Temp(MODEL_TEMPERATURE)
        llm == Event("ChatGroq", key)
        agent == Event("create_csv_agent", data_file)
    IN  IF ~TruthyKey(key)
        THEN [outcome |-> Raise("ValueError", "Groq API key is required. Set it in .env file or pass directly."),
              events |-> <<>>]
        ELSE IF ext = "llm_fails"
        THEN [outcome |-> Raise("GroqError", "client could not be created"), events |-> <<llm>>]
        ELSE IF ext = "agent_fails"
        THEN [outcome |-> Raise("FileNotFoundError", data_file), events |-> <<llm, agent>>]
        ELSE [outcome |-> Return([data_file |-> data_file, api_key |-> key, temperature |-> temp,
                                  llm |-> [api_key |-> key, temperature |-> temp]]),
              events |-> <<llm, agent>>]

\* how the reasoning agent of a run behaves
AgentBehaviours == {"answers", "fails", "fails on market cap"}

\* agent.invoke(q) of an agent of behaviour b
AgentReply(b, q) ==
    CASE b = "answers" -> Return("Answer to: " \o q)
      [] b = "fails"   -> Raise("TimeoutError", "Request timed out.")
      [] b = "fails on market cap" ->
            IF Contains("market cap", q) THEN Raise("KeyError", "'output'")
            ELSE Return("Answer to: " \o q)

\* analyze with a second invocation after a failed one
analyze_calls_retry(b, q) ==
    IF AgentReply(b, q).ok
    THEN <<Event("analyze", q), Event("invoke", q)>>
    ELSE <<Event("analyze", q), Event("invoke", q), Event("invoke", q)>>

\* src/analyzer.py lines 60-70: the calls one analyze(q) makes
analyze_calls(b, q) == <<Event("analyze", q), Event("invoke", q)>>

RECURSIVE run_queries_until_failure(_, _)
\* the batch with the failure of a query ending it
run_queries_until_failure(b, queries) ==
    IF Len(queries) = 0 THEN [results |-> <<>>, events |-> <<>>]
    ELSE IF ~AgentReply(b, Head(queries)).ok
    THEN [results |-> <<>>, events |-> analyze_calls(b, Head(queries))]
    ELSE LET rest == run_queries_until_failure(b, Tail(queries))
         IN  [results |-> <<analyze(Head(queries), AgentReply(b, Head(queries)))>> \o rest.results,
              events |-> analyze_calls(b, Head(queries)) \o rest.events]

RECURSIVE run_queries(_, _)
\* src/analyzer.py lines 79-85 and 97-103: the loop of run_standard_queries
\* and of run_custom_queries, the rows of the DataFrame it returns and the
\* calls it makes
run_queries(b, queries) ==
    IF Len(queries) = 0 THEN [results |-> <<>>, events |-> <<>>]
    ELSE LET rest == run_queries(b, Tail(queries))
         IN  [results |-> <<analyze(Head(queries), AgentReply(b, Head(queries)))>> \o rest.results,
              events |-> analyze_calls(b, Head(queries)) \o rest.events]

\* lines 72-85
run_standard_queries(b) == run_queries(b, STANDARD_QUERIES)

\* lines 87-103
run_custom_queries(b, queries) == run_queries(b, queries)

\* the texts given after --query
CustomQuerySet == {"What is the market cap of AMZN?", "What is the PE ratio of MSFT?"}

\* the command lines: an option not given is None, --query not given is <<>>
\* (nargs='+' takes at least one text)
CommandLines ==
    [data : {None, "custom.csv", "data/stocks.csv"},
     api_key : {None, "", "gsk_arg"},
     query : SeqsUpTo(CustomQuerySet, MaxQueries),
     visualize : BOOLEAN,
     interactive : BOOLEAN]

\* a run without a command line: a caller of StockAnalyzer
NoCommandLine ==
    [data |-> None, api_key |-> None, query |-> <<>>, visualize |-> FALSE, interactive |-> FALSE]

\* src/main.py lines 17-31
parse_args(argv, DATA_FILE, cfg_key) ==
    [data |-> IF argv.data = None THEN DATA_FILE ELSE argv.data,
     api_key |-> IF argv.api_key = None THEN cfg_key ELSE argv.api_key,
     query |-> argv.query,
     visualize |-> argv.visualize,
     interactive |-> argv.interactive]

\* the files of a run of main.py: the default DATA_FILE, a stock file or
\* nothing at data/stocks.csv, another stock file or nothing at custom.csv
MainFileSystems ==
    {fs \in [DATA_FILE : {"data/stocks.csv"}, kind : [Paths -> FileKinds],
             rows : {<<>>, <<AAPL, TSLA>>}] :
        /\ fs.kind["data/stocks.csv"] \in {"missing", "stock"}
        /\ fs.kind["custom.csv"] \in {"missing", "other"}
        /\ fs.kind["stocks.csv"] = "missing"
        /\ fs.kind["sample.csv"] = "missing"}

\* end of input at the prompt
EOF == "<EOF>"

\* what is typed at the prompt of the interactive mode
Inputs == {"exit", "Exit", "STATS", "viz", "What is the market cap of AMZN?", EOF}

\* the temperatures a caller passes, in hundredths, or none
Temperatures == {Nothing, Temp(0), Temp(70), Temp(100)}

InitMain ==
    /\ program \in {"main", "lib"}
    /\ df = <<>>
    /\ GROQ_API_KEY \in {None, "gsk_test"}
    /\ stableSort = TRUE
    /\ analyzer = Nothing
    /\ pc = "start"
    /\ query = ""
    /\ result = Nothing
    /\ last = Nothing
    /\ files \in MainFileSystems
    /\ \E argv \in CommandLines, b \in AgentBehaviours :
          /\ program = "lib" => (argv = NoCommandLine /\ b = "answers")
          /\ cli = [argv |-> argv, args |-> Nothing, agent |-> b, trace |-> <<>>,
                    results |-> <<>>, prompts |-> 0, error |-> Nothing,
                    ret |-> "running"]

\* the except clause with main going on to return 0
MainRaises_return_0(events, exception) ==
    /\ pc' = "done"
    /\ result' = exception
    /\ cli' = [cli EXCEPT !.trace = @ \o events, !.error = exception, !.ret = "0"]

\* main ends in the except clause of lines 107-109
MainRaises(events, exception) ==
    /\ pc' = "done"
    /\ result' = exception
    /\ cli' = [cli EXCEPT !.trace = @ \o events, !.error = exception, !.ret = "1"]

\* the step after the results are saved, lines 92 and 102
AfterSave == IF cli.args.visualize THEN "viz" ELSE IF cli.args.interactive THEN "interactive" ELSE "finish"

\* lines 60-65: the arguments are parsed; without an API key main returns
MainStart ==
    /\ program = "main"
    /\ pc = "start"
    /\ LET args == parse_args(cli.argv, files.DATA_FILE, GROQ_API_KEY)
       IN  IF ~TruthyKey(args.api_key)
           THEN /\ pc' = "done"
                /\ cli' = [cli EXCEPT !.args = args, !.ret = "None"]
           ELSE /\ pc' = "load"
                /\ cli' = [cli EXCEPT !.args = args]
    /\ UNCHANGED <<program, df, GROQ_API_KEY, stableSort, analyzer, query, result, last, files>>

\* lines 69-71
MainLoad ==
    /\ program = "main"
    /\ pc = "load"
    /\ LET loaded == load_stock_data(files)
       IN  IF loaded.ok
           THEN /\ df' = loaded.val
                /\ pc' = "create"
                /\ cli' = [cli EXCEPT !.trace = Append(@, Event("load_stock_data", ""))]
                /\ UNCHANGED result
           ELSE /\ MainRaises(<<Event("load_stock_data", "")>>, loaded)
                /\ UNCHANGED df
    /\ UNCHANGED <<program, GROQ_API_KEY, stableSort, analyzer, query, last, files>>

\* create_csv_agent reads the file at data_file: it raises when pd.read_csv
\* of that path does
AgentOutcome(fs, data_file, ext) ==
    IF ext = "ok" /\ (~exists(fs, data_file) \/ ~read_csv(fs, data_file).ok)
    THEN "agent_fails" ELSE ext

\* lines 74-77
MainCreate(ext) ==
    /\ program = "main"
    /\ pc = "create"
    /\ LET made == StockAnalyzer_init(cli.args.data, cli.args.api_key, Nothing, GROQ_API_KEY,
                                      AgentOutcome(files, cli.args.data, ext))
       IN  IF made.outcome.ok
           THEN /\ analyzer' = made.outcome.val
                /\ pc' = "queries"
                /\ cli' = [cli EXCEPT !.trace = @ \o made.events]
                /\ UNCHANGED result
           ELSE /\ MainRaises(made.events, made.outcome)
                /\ UNCHANGED analyzer
    /\ UNCHANGED <<program, df, GROQ_API_KEY, stableSort, query, last, files>>

\* lines 80-85
MainQueries ==
    /\ program = "main"
    /\ pc = "queries"
    /\ LET batch == IF Len(cli.args.query) > 0
                    THEN run_custom_queries(cli.agent, cli.args.query)
                    ELSE run_standard_queries(cli.agent)
       IN  cli' = [cli EXCEPT !.trace = @ \o batch.events, !.results = batch.results]
    /\ pc' = "save"
    /\ UNCHANGED <<program, df, GROQ_API_KEY, stableSort, analyzer, query, result, last, files>>

\* lines 88-89: save_analysis_results writes the file, or raises
MainSave(ok) ==
    /\ program = "main"
    /\ pc = "save"
    /\ IF ok
       THEN /\ pc' = AfterSave
            /\ cli' = [cli EXCEPT !.trace = Append(@, Event("save_analysis_results", ""))]
            /\ UNCHANGED result
       ELSE MainRaises(<<Event("save_analysis_results", "")>>,
                       Raise("PermissionError", "results/analysis_results.csv"))
    /\ UNCHANGED <<program, df, GROQ_API_KEY, stableSort, analyzer, query, last, files>>

\* lines 92-99: the four plots are drawn, or one of them raises
MainVisualize(ok) ==
    /\ program = "main"
    /\ pc = "viz"
    /\ IF ok
       THEN /\ pc' = IF cli.args.interactive THEN "interactive" ELSE "finish"
            /\ cli' = [cli EXCEPT !.trace = Append(@, Event("plot", ""))]
            /\ UNCHANGED result
       ELSE MainRaises(<<Event("plot", "")>>, Raise("ValueError", "plot"))
    /\ UNCHANGED <<program, df, GROQ_API_KEY, stableSort, analyzer, query, last, files>>

\* lines 41, 43, 47: the inputs the loop handles itself
InteractiveCommands == {"exit", "stats", "viz"}

\* lines 38-56: one turn of the loop of run_interactive_mode, inp typed at
\* the prompt; plots tells whether the four plots of 'viz' are drawn
Prompt(inp, plots) ==
    /\ program = "main"
    /\ pc = "interactive"
    /\ inp \in (IF cli.prompts < MaxInputs THEN Inputs ELSE {"exit", EOF})
    /\ query' = inp
    /\ LET asked == <<Event("input", inp)>>
           own == Lower(inp) \in InteractiveCommands
       IN  IF inp = EOF
           THEN MainRaises(asked, Raise("EOFError", "EOF when reading a line"))
           ELSE IF own /\ Lower(inp) = "exit"
           THEN /\ pc' = "finish"
                /\ cli' = [cli EXCEPT !.trace = @ \o asked, !.prompts = @ + 1]
                /\ UNCHANGED result
           ELSE IF own /\ Lower(inp) = "stats"
           THEN IF get_stock_statistics(df).ok
                THEN /\ pc' = "interactive"
                     /\ result' = get_stock_statistics(df)
                     /\ cli' = [cli EXCEPT !.trace = @ \o asked \o <<Event("get_stock_statistics", "")>>,
                                           !.prompts = @ + 1]
                ELSE MainRaises(asked \o <<Event("get_stock_statistics", "")>>,
                                get_stock_statistics(df))
           ELSE IF own /\ Lower(inp) = "viz"
           THEN IF plots
                THEN /\ pc' = "interactive"
                     /\ cli' = [cli EXCEPT !.trace = @ \o asked \o <<Event("plot", "")>>,
                                           !.prompts = @ + 1]
                     /\ UNCHANGED result
                ELSE MainRaises(asked \o <<Event("plot", "")>>, Raise("ValueError", "plot"))
           ELSE /\ pc' = "interactive"
                /\ result' = analyze(inp, AgentReply(cli.agent, inp))
                /\ cli' = [cli EXCEPT !.trace = @ \o asked \o analyze_calls(cli.agent, inp)
                                                  \o <<Event("print", inp)>>,
                                      !.prompts = @ + 1]
    /\ UNCHANGED <<program, df, GROQ_API_KEY, stableSort, analyzer, last, files>>

\* lines 105 and 111
MainFinish ==
    /\ program = "main"
    /\ pc = "finish"
    /\ pc' = "done"
    /\ cli' = [cli EXCEPT !.ret = "0"]
    /\ UNCHANGED <<program, df, GROQ_API_KEY, stableSort, analyzer, query, result, last, files>>

\* StockAnalyzer(data_file, api_key, temperature) called by a program of
\* its own
Construct(data_file, api_key, temperature, ext) ==
    /\ program = "lib"
    /\ pc = "start"
    /\ pc' = "constructed"
    /\ LET made == StockAnalyzer_init(data_file, api_key, temperature, GROQ_API_KEY,
                                      AgentOutcome(files, data_file, ext))
       IN  /\ result' = made.outcome
           /\ analyzer' = IF made.outcome.ok THEN made.outcome.val ELSE analyzer
           /\ cli' = [cli EXCEPT !.args = [data |-> data_file, api_key |-> api_key,
                                           temperature |-> temperature],
                                 !.trace = made.events]
    /\ UNCHANGED <<program, df, GROQ_API_KEY, stableSort, query, last, files>>

NextMain ==
    \/ MainStart
    \/ MainLoad
    \/ \E ext \in ExternalOutcomes : MainCreate(ext)
    \/ MainQueries
    \/ \E ok \in BOOLEAN : MainSave(ok)
    \/ \E ok \in BOOLEAN : MainVisualize(ok)
    \/ \E inp \in Inputs, plots \in BOOLEAN : Prompt(inp, plots)
    \/ MainFinish
    \/ \E data_file \in {"custom.csv", "data/stocks.csv"}, api_key \in {None, "", "gsk_arg"},
          temperature \in Temperatures, ext \in ExternalOutcomes :
           Construct(data_file, api_key, temperature, ext)

SpecMain == InitMain /\ [][NextMain]_vars

(***************************************************************************)
(* Properties.                                                             *)
(***************************************************************************)
Clicked == pc = "clicked" /\ query # ""

\* the row of d whose symbol is sym
RowOf(d, sym) == CHOOSE r \in {d[i] : i \in 1..Len(d)} : r.symbol = sym

\* C1: for every data frame of at least one row and every symbol s of it,
\* the question "What is the price of s?" is answered by a card that gives
\* the price of s's row with a currency sign and two decimals, and not by
\* the fallback text.
C1_PriceOfEverySymbol ==
    \A s \in Symbols(df) :
        (Clicked /\ query = PriceQuestion(s))
            => /\ result.shown = "card"
               /\ result.text # DEMO_FALLBACK
               /\ Contains("$" \o Fmt2(RowOf(df, s).price), result.text)

\* C2: a query that satisfies the condition of none of the six rules, asked
\* with no API key configured, is answered by a card whose text is exactly
\* the fixed fallback string, whatever the data frame; it never ends in the
\* error outcome.
C2_UnclassifiedFallback ==
    (Clicked /\ GROQ_API_KEY = None /\ \A i \in 1..6 : ~RuleCond(i, query))
        => /\ result.shown = "card"
           /\ result.text = DEMO_FALLBACK

C2_Witness ==
    /\ Clicked
    /\ GROQ_API_KEY = None
    /\ df = <<AAPL, TSLA>>
    /\ query = "What is the market cap of AMZN?"
    /\ \A i \in 1..6 : ~RuleCond(i, query)
    /\ result.text = DEMO_FALLBACK

\* the lowest-numbered rule whose condition q satisfies, 7 when none does
FirstMatch(q) ==
    CHOOSE i \in 1..7 : RuleCond(i, q) /\ \A j \in 1..(i - 1) : ~RuleCond(j, q)

\* C3: the outcome of a click is the outcome of the lowest-numbered rule
\* whose condition the query satisfies, whichever other rules it satisfies
\* too; "What is the highest price of AAPL?" with AAPL at 150.25 is
\* answered "The stock price of AAPL is $150.25".
C3_FirstMatchWins ==
    Clicked =>
        LET m == FirstMatch(query)
            r == RuleBody(m, df, stableSort)
        IN  /\ result.branch = m
            /\ r.ok => (result.shown = "card" /\ result.text = r.val)
            /\ ~r.ok => result.shown = "error"
            /\ (query = "What is the highest price of AAPL?" /\ AAPL \in {df[i] : i \in 1..Len(df)})
                   => result.text = "The stock price of AAPL is $150.25"

C3_Witness ==
    /\ Clicked
    /\ query = "What is the highest price of AAPL?"
    /\ RuleCond(1, query) /\ RuleCond(4, query)
    /\ df = <<TSLA, AAPL>>
    /\ result.text = "The stock price of AAPL is $150.25"

\* C4: on a data frame of at least one row a click never ends in the error
\* outcome: a rule whose symbol has no row gives a normal answer card, and
\* no text of an internal exception is shown.
C4_NoErrorOutcome ==
    (Clicked /\ Len(df) >= 1)
        => /\ result.shown = "card"
           /\ ~Contains("out of bounds", result.text)

\* C5: a row is looked up only for a symbol that the data frame contains: a
\* query naming a ticker that is no symbol of the frame is not classified
\* as a lookup of that ticker.
C5_LookupOnlyKnownSymbols ==
    (Clicked /\ Len(df) >= 1 /\ result.lookup # "")
        => result.lookup \in Symbols(df)

\* C6: a query that no rule classifies, asked with an API key configured,
\* is handed to the reasoning agent, once, and the agent's answer is what is
\* returned, unchanged and together with the query; the fallback text is
\* kept for an agent that is unavailable or fails.
C6_UnclassifiedIsDelegated ==
    /\ (Clicked /\ result.branch = 7 /\ GROQ_API_KEY # None)
           => /\ result.invoked = 1
              /\ result.text # DEMO_FALLBACK
    /\ (pc = "analyzed" /\ result.reply.ok)
           => /\ result.answer.response = result.reply.val
              /\ result.answer.query = query

\* C7: when agent.invoke raises, the answer is the fixed fallback text of
\* the not-configured case, and the text of the exception is no part of it.
C7_AgentFailureGivesFallback ==
    (pc = "analyzed" /\ ~result.reply.ok)
        => /\ result.answer.response = DEMO_FALLBACK
           /\ ~Contains(result.reply.msg, result.answer.response)

\* C8: get_stock_statistics of a data frame of no rows ends in an error; it
\* returns no statistics, be they zeros, NaN or anything else.
C8_EmptyStatisticsRaise ==
    (pc = "stats" /\ Len(df) = 0) => ~result.ok

C8_Witness ==
    /\ pc = "stats"
    /\ Len(df) = 0
    /\ ~result.ok
    /\ result.exc = "ValueError"

FirstMaxRow(d) ==
    d[CHOOSE i \in 1..Len(d) :
          /\ \A j \in 1..Len(d) : d[j].price <= d[i].price
          /\ \A j \in 1..(i - 1) : d[j].price < d[i].price]

\* C10: the symbol that get_stock_statistics reports as highest_price, and
\* the symbol, name and price of the highest-price answer, are those of the
\* first row in data-frame order whose price is the maximum, on every call.
C10_FirstMaximumWins ==
    /\ (pc = "stats" /\ Len(df) >= 1)
           => /\ result.ok
              /\ result.val.highest_price = FirstMaxRow(df).symbol
    /\ (Clicked /\ Len(df) >= 1 /\ result.branch = 4)
           => LET r == FirstMaxRow(df)
              IN  result.text = "The stock with the highest price is " \o r.name
                                    \o " (" \o r.symbol \o ") with a price of $"
                                    \o Fmt2(r.price)

C10_Witness ==
    /\ Clicked
    /\ df = <<MSFT, TSLA>>
    /\ MSFT.price = TSLA.price
    /\ result.branch = 4
    /\ result.text = "The stock with the highest price is Microsoft Corp. (MSFT) with a price of $650.75"

Named(q, d) == {t \in Symbols(d) : Contains(t, q)}

\* C12: for every symbol s of the data frame, a query that contains s (and
\* no other symbol) and the keyword "performance", and not "price", is
\* answered with the performance of s's row, two decimals and a percent
\* sign: "The performance of TSLA is 5.00%" for TSLA at 5.0.
C12_PerformanceOfEverySymbol ==
    \A s \in Symbols(df) :
        (Clicked /\ Named(query, df) = {s}
                 /\ Contains("performance", Lower(query))
                 /\ ~Contains("price", Lower(query)))
            => /\ result.shown = "card"
               /\ result.text = "The performance of " \o s \o " is "
                                    \o Fmt2(RowOf(df, s).perf) \o "%"

\* C13: for every symbol s of the data frame, a query that contains s (and
\* no other symbol) and the metric spelled "PE" or "P/E", and neither
\* "price" nor "performance", is classified as the P/E lookup of s and
\* answered from s's row, not by the fallback text.
C13_RatioOfEverySymbolEitherSpelling ==
    \A s \in Symbols(df) :
        (Clicked /\ Named(query, df) = {s}
                 /\ (Contains("PE", query) \/ Contains("P/E", query))
                 /\ ~Contains("price", Lower(query))
                 /\ ~Contains("performance", Lower(query)))
            => /\ result.shown = "card"
               /\ result.branch = 3
               /\ result.lookup = s
               /\ result.text # DEMO_FALLBACK

\* the text without a percent sign at its end
StripPercent(t) ==
    IF Len(t) > 0 /\ SubSeq(t, Len(t), Len(t)) = "%" THEN SubSeq(t, 1, Len(t) - 1) ELSE t

\* the number of characters that follow the last "." of the number the
\* answer text ends with, 0 when the text has no "."
FractionDigits(t) ==
    LET u == StripPercent(t)
        dots == {i \in 1..Len(u) : SubSeq(u, i, i) = "."}
    IN  IF dots = {} THEN 0
        ELSE Len(u) - (CHOOSE i \in dots : \A j \in dots : j <= i)

\* C14 as claimed: the P/E answer carries exactly one decimal place, the
\* price, performance and average-price answers exactly two.
C14_RatioOneDecimal ==
    (Clicked /\ result.shown = "card")
        => /\ result.branch = 3 => FractionDigits(result.text) = 1
           /\ result.branch \in {1, 2, 5} => FractionDigits(result.text) = 2

\* C14 as amended: the P/E answer, like the price, performance and
\* average-price answers, carries exactly two decimal places.
C14_TwoDecimalsEverywhere ==
    (Clicked /\ result.shown = "card" /\ result.branch \in {1, 2, 3, 5})
        => FractionDigits(result.text) = 2

C14_Witness ==
    /\ Clicked
    /\ result.branch = 3
    /\ df = <<MSFT>>
    /\ result.text = "The P/E Ratio of MSFT is 35.60"
    /\ FractionDigits(result.text) = 2

\* the ticker symbols the rules of the handler test for
Tickers == {"AAPL", "TSLA", "MSFT"}

\* the queries that differ from q at most in the letter case of words
\* that are not ticker symbols
KeywordCaseVariants(q) ==
    {q2 \in Queries : /\ Lower(q2) = Lower(q)
                      /\ \A t \in Tickers : Contains(t, q2) <=> Contains(t, q)}

\* C15: changing only the letter case of a topic keyword never changes the
\* rule a query is classified under, and a query that has a ticker symbol
\* only in another letter case is not classified under a ticker rule.
C15_KeywordCaseIrrelevant ==
    Clicked =>
        /\ \A q2 \in KeywordCaseVariants(query) : Branch(q2) = result.branch
        /\ (\A t \in Tickers : ~Contains(t, query)) => result.branch \notin {1, 2, 3}

\* the sectors of d that no sector of d outnumbers
MostStocks(d) ==
    LET sec == Column(d, "sector")
    IN  {s \in {sec[i] : i \in 1..Len(d)} :
            \A t \in {sec[i] : i \in 1..Len(d)} : CountOf(sec, t) <= CountOf(sec, s)}

\* the position of the first row of d in sector s
FirstSeen(d, s) == CHOOSE i \in 1..Len(d) : d[i].sector = s /\ \A j \in 1..(i - 1) : d[j].sector # s

SectorAnswer(d, s) ==
    "The sector with the most stocks is " \o s \o " with "
        \o ToString(CountOf(Column(d, "sector"), s)) \o " stocks"

\* C16 as claimed: the sector answer names a sector of maximum member count
\* with that count, and among several such sectors the one seen first in
\* dataset order.
C16_TieFirstSeen ==
    (Clicked /\ result.branch = 6 /\ Len(df) >= 1)
        => /\ result.shown = "card"
           /\ \E s \in MostStocks(df) :
                 /\ result.text = SectorAnswer(df, s)
                 /\ \A t \in MostStocks(df) : FirstSeen(df, s) <= FirstSeen(df, t)

\* C16 as amended: the sector answer names a sector of maximum member count
\* with that count; which of several such sectors it names is not fixed by
\* the dataset order.
C16_MostStocks ==
    (Clicked /\ result.branch = 6 /\ Len(df) >= 1)
        => /\ result.shown = "card"
           /\ \E s \in MostStocks(df) : result.text = SectorAnswer(df, s)

C16_Witness ==
    /\ Clicked
    /\ query = "Which sector has the most stocks?"
    /\ df = SAMPLE_DATA
    /\ MostStocks(df) = {"Technology"}
    /\ result.text = "The sector with the most stocks is Technology with 3 stocks"

RECURSIVE TotalOf(_, _, _)
\* column c of the first n records of d, added up
TotalOf(d, c, n) == IF n = 0 THEN 0 ELSE d[n][c] + TotalOf(d, c, n - 1)

RECURSIVE CountsTotal(_, _)
\* the counts of histogram h over the labels of S, added up
CountsTotal(h, S) ==
    IF S = {} THEN 0
    ELSE LET s == CHOOSE x \in S : TRUE
         IN  h[s] + CountsTotal(h, S \ {s})

\* C17: the statistics of a data frame with a record give the number of
\* records as total, a histogram over exactly the sector labels observed,
\* each with the number of records carrying it, the counts adding up to the
\* total, and the price and performance means over all records.
C17_SnapshotTotals ==
    (pc = "stats" /\ Len(df) >= 1) =>
        /\ result.ok
        /\ result.val.total_stocks = Len(df)
        /\ DOMAIN result.val.sectors = {df[i].sector : i \in 1..Len(df)}
        /\ \A s \in DOMAIN result.val.sectors :
              result.val.sectors[s] = Cardinality({i \in 1..Len(df) : df[i].sector = s})
        /\ CountsTotal(result.val.sectors, DOMAIN result.val.sectors) = result.val.total_stocks
        /\ ~result.val.average_price.nan
        /\ result.val.average_price.num * Len(df)
              = TotalOf(df, "price", Len(df)) * result.val.average_price.den
        /\ ~result.val.avg_performance.nan
        /\ result.val.avg_performance.num * Len(df)
              = TotalOf(df, "perf", Len(df)) * result.val.avg_performance.den

C17_Witness ==
    /\ pc = "stats"
    /\ df = SAMPLE_DATA
    /\ result.ok
    /\ result.val.total_stocks = 5
    /\ result.val.sectors["Technology"] = 3
    /\ result.val.sectors["Automotive"] = 1
    /\ result.val.average_price.num = 15025 + 29050 + 280075 + 325050 + 65075

BackingFile(fs) ==
    LET paths == possible_paths(fs.DATA_FILE)
        yields == {i \in 1..Len(paths) : fs.kind[paths[i]] \in {"nosymbol", "stock", "other"}}
    IN  IF yields = {} THEN Nothing
        ELSE read_csv(fs, paths[CHOOSE i \in yields : \A j \in yields : i <= j]).val

\* the position in rows of the first row with symbol s
FirstOf(rows, s) == CHOOSE i \in 1..Len(rows) : rows[i].symbol = s /\ \A j \in 1..(i - 1) : rows[j].symbol # s

\* C19: the frame load_stock_data returns has unique symbols; of every
\* symbol of the file it keeps exactly one row, the first in file order,
\* and the rows kept are in file order.
C19_LoadKeepsFirstOfEachSymbol ==
    (pc = "loaded" /\ result.ok) =>
        LET file == BackingFile(files).rows
            out == result.val
        IN  /\ UniqueSymbols(out)
            /\ Symbols(out) = Symbols(file)
            /\ \A i \in 1..Len(out) : out[i] = file[FirstOf(file, out[i].symbol)]
            /\ \A i, j \in 1..Len(out) :
                  i < j => FirstOf(file, out[i].symbol) < FirstOf(file, out[j].symbol)

C19_Witness ==
    /\ pc = "loaded"
    /\ result.ok
    /\ BackingFile(files).rows = <<AAPL, AAPL_AGAIN>>
    /\ result.val = <<AAPL>>

\* whether some candidate path exists and is read by pd.read_csv
SomeCandidateYields(fs) == BackingFile(fs) # Nothing

\* C20 as claimed: load_stock_data fails with FileNotFoundError exactly when
\* no candidate path exists and reads, the message then naming every
\* candidate path; when some candidate exists and reads, it returns a frame
\* and raises nothing.
C20_NotFoundOrDataset ==
    pc = "loaded" =>
        /\ (~result.ok /\ result.exc = "FileNotFoundError") <=> ~SomeCandidateYields(files)
        /\ ~SomeCandidateYields(files) =>
              \A i \in 1..Len(possible_paths(files.DATA_FILE)) :
                  Contains(possible_paths(files.DATA_FILE)[i], result.msg)
        /\ SomeCandidateYields(files) => result.ok

\* C20 as amended: load_stock_data fails with FileNotFoundError exactly when
\* no candidate path exists and reads, the message then naming every
\* candidate path; when some candidate exists and reads, it returns a frame
\* if the first such candidate has a 'Stock Symbol' column, and fails with
\* KeyError if it has not.
C20_NotFoundKeyErrorOrDataset ==
    pc = "loaded" =>
        /\ (~result.ok /\ result.exc = "FileNotFoundError") <=> ~SomeCandidateYields(files)
        /\ ~SomeCandidateYields(files) =>
              \A i \in 1..Len(possible_paths(files.DATA_FILE)) :
                  Contains(possible_paths(files.DATA_FILE)[i], result.msg)
        /\ (SomeCandidateYields(files) /\ BackingFile(files).symbol_column) => result.ok
        /\ (SomeCandidateYields(files) /\ ~BackingFile(files).symbol_column)
              => (~result.ok /\ result.exc = "KeyError")

C20_Witness ==
    /\ pc = "loaded"
    /\ files.DATA_FILE = "custom.csv"
    /\ files.kind["custom.csv"] = "unreadable"
    /\ files.kind["data/stocks.csv"] = "missing"
    /\ files.kind["stocks.csv"] = "stock"
    /\ files.rows = <<TSLA, AAPL>>
    /\ result = Return(<<TSLA, AAPL>>)

\* the calls of the trace made with operation op
Calls(op) == {i \in 1..Len(cli.trace) : cli.trace[i].op = op}

\* C21: without an API key, passed or configured, the construction of a
\* StockAnalyzer ends in an error with neither the LLM client nor the agent
\* created; main without an API key returns with no data loaded, no
\* analyzer created and no query run; in neither is the agent invoked.
C21_NoKeyNoAgent ==
    /\ (pc = "constructed" /\ cli.args.api_key \in {None, ""} /\ GROQ_API_KEY = None)
          => /\ ~result.ok
             /\ result.exc = "ValueError"
             /\ analyzer = Nothing
             /\ Calls("ChatGroq") = {} /\ Calls("create_csv_agent") = {} /\ Calls("invoke") = {}
    /\ (program = "main" /\ pc # "start"
            /\ (cli.argv.api_key = "" \/ (cli.argv.api_key = None /\ GROQ_API_KEY = None)))
          => /\ pc = "done"
             /\ cli.ret = "None"
             /\ df = <<>> /\ analyzer = Nothing /\ cli.results = <<>>
             /\ cli.trace = <<>>

C21_Witness ==
    /\ pc = "constructed"
    /\ GROQ_API_KEY = None
    /\ cli.args.api_key = None
    /\ files.kind["data/stocks.csv"] = "stock"
    /\ cli.args.data = "data/stocks.csv"
    /\ result = Raise("ValueError", "Groq API key is required. Set it in .env file or pass directly.")
    /\ cli.trace = <<>>

\* C22: every call of analyze invokes the agent once, at once, and every
\* invocation of the agent is the one of the call of analyze before it: no
\* invocation follows another, a failed one included.
C22_SingleAttempt ==
    cli # Nothing =>
        \A i \in 1..Len(cli.trace) :
            /\ cli.trace[i].op = "analyze"
                  => (i < Len(cli.trace) /\ cli.trace[i + 1] = Event("invoke", cli.trace[i].arg))
            /\ cli.trace[i].op = "invoke"
                  => (i > 1 /\ cli.trace[i - 1] = Event("analyze", cli.trace[i].arg))

C22_Witness ==
    /\ program = "main"
    /\ pc = "save"
    /\ cli.agent = "fails"
    /\ cli.args.query = <<"What is the PE ratio of MSFT?">>
    /\ cli.results = <<[query |-> "What is the PE ratio of MSFT?",
                        response |-> "Error: Request timed out."]>>
    /\ Cardinality(Calls("invoke")) = 1

\* the queries of the batch of the run: those of --query, else the standard ones
BatchQueries == IF Len(cli.args.query) > 0 THEN cli.args.query ELSE STANDARD_QUERIES

\* C23: the batch gives one result for each query, in the order of the
\* queries, each with the text of its query; the result of a query the
\* agent failed on tells the error, and the results of the others are there.
C23_BatchOneResultPerQuery ==
    (program = "main" /\ pc = "save") =>
        /\ Len(cli.results) = Len(BatchQueries)
        /\ \A i \in 1..Len(BatchQueries) :
              /\ cli.results[i].query = BatchQueries[i]
              /\ cli.results[i].response =
                    IF AgentReply(cli.agent, BatchQueries[i]).ok
                    THEN AgentReply(cli.agent, BatchQueries[i]).val
                    ELSE "Error: " \o AgentReply(cli.agent, BatchQueries[i]).msg

C23_Witness ==
    /\ program = "main"
    /\ pc = "save"
    /\ cli.agent = "fails on market cap"
    /\ cli.args.query = <<"What is the market cap of AMZN?", "What is the PE ratio of MSFT?">>
    /\ cli.results = <<[query |-> "What is the market cap of AMZN?", response |-> "Error: 'output'"],
                       [query |-> "What is the PE ratio of MSFT?",
                        response |-> "Answer to: What is the PE ratio of MSFT?"]>>

\* the inputs typed so far at the prompt, in order
Typed == SelectSeq(cli.trace, LAMBDA e : e.op = "input")

\* the position in the trace of the k-th input
InputAt(k) == CHOOSE i \in Calls("input") : Cardinality({j \in Calls("input") : j <= i}) = k

\* the calls the k-th input led to: those after it and before the next input
CallsOfInput(k) ==
    LET from == InputAt(k)
        to == IF k < Len(Typed) THEN InputAt(k + 1) - 1 ELSE Len(cli.trace)
    IN  SubSeq(cli.trace, from + 1, to)

\* C24: in the interactive loop, whatever is typed (the input not ending),
\* 'exit', 'stats' and 'viz' in any letter case are not handed to the
\* analyzer; any other input is handed to it once and its result printed
\* before the next prompt; the loop ends at the first 'exit' and only there.
C24_LoopEndsAtFirstExit ==
    (program = "main" /\ cli.args # Nothing /\ \A k \in 1..Len(Typed) : Typed[k].arg # EOF) =>
        /\ \A k \in 1..Len(Typed) :
              IF Lower(Typed[k].arg) \in {"exit", "stats", "viz"}
              THEN \A j \in 1..Len(CallsOfInput(k)) : CallsOfInput(k)[j].op \notin {"analyze", "invoke"}
              ELSE CallsOfInput(k) = <<Event("analyze", Typed[k].arg), Event("invoke", Typed[k].arg),
                                       Event("print", Typed[k].arg)>>
        /\ \A k \in 1..Len(Typed) : Lower(Typed[k].arg) = "exit" => k = Len(Typed)
        /\ (Len(Typed) > 0 /\ pc \in {"finish", "done"}) => Lower(Typed[Len(Typed)].arg) = "exit"

\* the place of a call in the order of the steps of main
StepOf(e) ==
    CASE e.op = "load_stock_data" -> 1
      [] e.op \in {"ChatGroq", "create_csv_agent"} -> 2
      [] e.op \in {"analyze", "invoke"} -> 3
      [] e.op = "save_analysis_results" -> 4
      [] e.op = "plot" -> 5
      [] OTHER -> 6

\* the calls of the run before the interactive mode
BeforePrompt ==
    LET inputs == Calls("input")
    IN  IF inputs = {} THEN cli.trace
        ELSE SubSeq(cli.trace, 1, (CHOOSE i \in inputs : \A j \in inputs : i <= j) - 1)

\* C25: a run of main with an API key takes its steps in the order load,
\* create the analyzer, run the queries (those of --query, else the
\* standard ones), save, plots if asked for, interactive mode if asked
\* for; the results are saved after every query was run; a step that
\* raises is the last step and main returns 1; main returns 0 only when
\* every step it took completed.
C25_StepsInOrder ==
    (program = "main" /\ cli.args # Nothing /\ TruthyKey(cli.args.api_key)) =>
        LET before == BeforePrompt
            ops == {cli.trace[i].op : i \in 1..Len(cli.trace)}
            typed == Typed
        IN  /\ \A i \in 1..(Len(before) - 1) : StepOf(before[i]) <= StepOf(before[i + 1])
            /\ \A j \in (Len(before) + 1)..Len(cli.trace) :
                  cli.trace[j].op \notin {"load_stock_data", "ChatGroq", "create_csv_agent",
                                          "save_analysis_results"}
            /\ "ChatGroq" \in ops => "load_stock_data" \in ops
            /\ "analyze" \in ops => "create_csv_agent" \in ops
            /\ "input" \in ops => "save_analysis_results" \in ops
            /\ \A s \in Calls("save_analysis_results") :
                  /\ SelectSeq(SubSeq(cli.trace, 1, s - 1), LAMBDA e : e.op = "analyze")
                        = [k \in 1..Len(BatchQueries) |-> Event("analyze", BatchQueries[k])]
                  /\ Len(cli.results) = Len(BatchQueries)
            /\ (\E i \in 1..Len(before) : before[i].op = "plot") => cli.args.visualize
            /\ "input" \in ops => cli.args.interactive
            /\ cli.error # Nothing <=> cli.ret = "1"
            /\ cli.error # Nothing => pc = "done"
            /\ cli.ret = "0" =>
                  /\ pc = "done"
                  /\ Cardinality(Calls("load_stock_data")) = 1
                  /\ Cardinality(Calls("create_csv_agent")) = 1
                  /\ Cardinality(Calls("save_analysis_results")) = 1
                  /\ cli.args.visualize => \E i \in 1..Len(before) : before[i].op = "plot"
                  /\ cli.args.interactive =>
                        (Len(typed) > 0 /\ Lower(typed[Len(typed)].arg) = "exit")
            /\ cli.ret \in {"running", "0", "1"}

C25_Witness ==
    /\ program = "main"
    /\ pc = "done"
    /\ cli.ret = "1"
    /\ cli.args.visualize /\ cli.args.interactive
    /\ cli.args.query = <<"What is the PE ratio of MSFT?">>
    /\ [k \in 1..Len(cli.trace) |-> cli.trace[k].op]
          = <<"load_stock_data", "ChatGroq", "create_csv_agent", "analyze", "invoke",
              "save_analysis_results", "plot">>
    /\ cli.error = Raise("ValueError", "plot")

\* the path of the file load_stock_data reads: the first candidate path
\* that exists and that pd.read_csv reads
BackingPath(fs) ==
    LET paths == possible_paths(fs.DATA_FILE)
        yields == {i \in 1..Len(paths) : exists(fs, paths[i]) /\ read_csv(fs, paths[i]).ok}
    IN  paths[CHOOSE i \in yields : \A j \in yields : i <= j]

\* C26: the data frame main has loaded was read from the path of --data,
\* the file the agent of the analyzer is built on.
C26_LoadedFromDataArgument ==
    (program = "main" /\ Calls("load_stock_data") # {} /\ cli.error = Nothing) =>
        /\ BackingPath(files) = cli.args.data
        /\ analyzer # Nothing => analyzer.data_file = BackingPath(files)

\* C27: the analyzer is built with the temperature passed to the
\* constructor, 0 included, and with the configured default when none is
\* passed.
C27_TemperatureAsPassed ==
    (pc = "constructed" /\ result.ok) =>
        /\ cli.args.temperature # Nothing => analyzer.llm.temperature = cli.args.temperature
        /\ cli.args.temperature = Nothing => analyzer.llm.temperature = Temp(MODEL_TEMPERATURE)

\* whether load_stock_data gives a frame with a row: a candidate exists and
\* reads, it has the symbol column, and it has a row
LoadGivesRows(fs) ==
    /\ SomeCandidateYields(fs)
    /\ BackingFile(fs).symbol_column
    /\ Len(BackingFile(fs).rows) >= 1

\* C28: get_cached_data raises nothing; the frame it returns has a row and
\* the statistics it returns are those of that frame; when the load or the
\* statistics of the loaded frame fail (no file, a frame of no rows), the
\* frame is the built-in sample of five records.
C28_CachedDataNeverRaises ==
    pc = "cached" =>
        /\ result.ok
        /\ df = result.val.df
        /\ Len(df) >= 1
        /\ result.val.stats.total_stocks = Len(df)
        /\ result.val.stats.average_price.num = TotalOf(df, "price", Len(df))
        /\ DOMAIN result.val.stats.sectors = {df[i].sector : i \in 1..Len(df)}
        /\ result.val.stats.highest_price \in Symbols(df)
        /\ ~LoadGivesRows(files) => (df = SAMPLE_DATA /\ Len(df) = 5)
        /\ LoadGivesRows(files) =>
              (Symbols(df) = Symbols(BackingFile(files).rows) /\ UniqueSymbols(df))

C28_Witness ==
    /\ pc = "cached"
    /\ files.DATA_FILE = "data/stocks.csv"
    /\ files.kind["data/stocks.csv"] = "stock"
    /\ files.rows = <<>>
    /\ result.ok
    /\ df = SAMPLE_DATA
    /\ result.val.stats.total_stocks = 5
    /\ result.val.stats.highest_price = "AMZN"

====
